---- MODULE Spec2Model ----
(***************************************************************************)
(* Model of ts_js-space/decorator_example.js: the retry decorator          *)
(* (retryRequest), the cache decorator (cacheRequest), their composition   *)
(* `enhanced = cacheRequest(retryRequest(fetchData))` and main().           *)
(*                                                                         *)
(* JavaScript values are modelled by their source literals ("[1]", "0",    *)
(* "null", ...), error messages by sequences of text tokens, Date.now() by *)
(* the integer `clock`.  Every invocation of `enhanced` is one element of  *)
(* Calls; an invocation is suspended exactly where the code awaits.        *)
(***************************************************************************)
EXTENDS Integers, Sequences, FiniteSets, TLC

\* ------------------------------------------------------------------ bounds
\* How many invocations of enhanced may overlap.
MaxConcurrent == 2
\* The largest values of retryRequest's and cacheRequest's parameters.
MaxAttempts == 4
MaxBaseDelay == 1
MaxTtl == 2
\* How many steps the clock makes.
MaxSteps == 7
\* The same for runs in which invocations overlap.
OverlapAttempts == 2
OverlapSteps == 2
\* How far below zero maxRetries is taken.
BelowZero == 1

\* ------------------------------------------------- constants of the source
DefaultMaxRetries == 3
DefaultBaseDelay == 300
DefaultTtl == 5000
MainWait == 6000

Calls == 1..MaxConcurrent

\* JSON bodies the API may answer with (res.json()), as JavaScript literals.
Bodies == {"[1]", "[2]", "0"}
\* Statuses of a response that is not ok.
BadStatus == {404, 500}
\* Argument lists an invocation may be given.
ArgLists == {<<>>, <<"a">>}

\* What one fetch() ends with: a response that is ok, or one that is not.
OkResponses == [ok : {TRUE}, status : {200}, body : Bodies]
Responses == OkResponses \cup [ok : {FALSE}, status : BadStatus, body : {"null"}]

VARIABLES
    maxRetries,   \* retryRequest's parameter
    baseDelay,    \* retryRequest's parameter
    ttl,          \* cacheRequest's parameter
    cache,        \* cacheRequest's closure variable
    timestamp,    \* cacheRequest's closure variable
    clock,        \* Date.now()
    started,      \* how many invocations a counting caller has started
    mainWake,     \* when main's timer of line 59 is due
    pc,           \* where each invocation of enhanced is
    args,         \* the invocation's argument list
    now,          \* the invocation's `now`
    attempt,      \* the invocation's loop variable
    err,          \* the message of the invocation's last caught failure
    wakeAt,       \* when the invocation's backoff timer is due
    settled,      \* what the retry wrapper's promise settled with
    result,       \* what the invocation of enhanced settled with
    got,          \* history: what the invocation's last fetchData call gave
    fnCalls,      \* history: calls of fn made by the cache wrapper
    fetchCalls,   \* history: calls of fetchData made by the retry wrapper
    inFlight,     \* history: calls of fetchData not yet settled
    delays,       \* history: the delays given to setTimeout
    storedSince,  \* history: an entry was stored since the invocation started
    served,       \* history: the entry in the slot has been served to a call
    lastStore,    \* history: the value and the stamp written by the latest
                  \* invocation to store (at first those of the construction)
    lastFail      \* history: whether the latest invocation to finish since the
                  \* last start failed ("none", "clean", "dirty": an entry was
                  \* stored since that invocation started)

frame == <<pc, args, now, attempt, err, wakeAt, settled, result, got, fnCalls,
           fetchCalls, inFlight, delays>>
vars == <<maxRetries, baseDelay, ttl, cache, timestamp, clock, started, mainWake,
          frame, storedSince, served, lastStore, lastFail>>

config == <<maxRetries, baseDelay, ttl>>
slot == <<cache, timestamp>>
main == <<started, mainWake>>

\* ----------------------------------------------------------- JavaScript
\* ToBoolean of a value, as `cache && ...` applies it.
Truthy(v) == v \notin {"null", "undefined", "0", "false", "''", "NaN"}

Digit(d) ==
    CASE d = 0 -> "0" [] d = 1 -> "1" [] d = 2 -> "2" [] d = 3 -> "3"
      [] d = 4 -> "4" [] d = 5 -> "5" [] d = 6 -> "6" [] d = 7 -> "7"
      [] d = 8 -> "8" [] d = 9 -> "9"

\* A number interpolated into a template literal: its decimal digits.
RECURSIVE ToStr(_)
ToStr(n) ==
    IF n < 0 THEN <<"-">> \o ToStr(-n)
    ELSE IF n < 10 THEN <<Digit(n)>>
    ELSE ToStr(n \div 10) \o <<Digit(n % 10)>>

RECURSIVE Pow2(_)
Pow2(n) == IF n <= 0 THEN 1 ELSE 2 * Pow2(n - 1)

Pending == [state |-> "pending", value |-> "undefined", message |-> <<>>]
Fulfilled(v) == [state |-> "fulfilled", value |-> v, message |-> <<>>]
Rejected(m) == [state |-> "rejected", value |-> "undefined", message |-> m]

\* ------------------------------------------------------------ fetchData
\* fetchData's outcome for what fetch() ended with.
fetchData(res) ==
    IF ~res.ok THEN Rejected(<<"HTTP error! Status: ">> \o ToStr(res.status))
    ELSE Fulfilled(res.body)

\* --------------------------------------------------------- retryRequest
\* Faulty variant, for comparison: the body runs once before the test.
LoopContinuesAfterFirst(att, max) == att = 0 \/ att < max

\* Line 12: the test of the for loop, made before every attempt.
LoopContinues(att, max) == att < max

\* Faulty variant, for comparison: the last attempt is taken to be the one after the budget.
IsLastAttemptOffByOne(att, max) == att = max

IsLastAttempt(att, max) == att = max - 1

ExhaustedMessage(max, msg) ==
    <<"Failed after ">> \o ToStr(max) \o <<" attempts: ">> \o msg

\* Faulty variant, for comparison: the delay does not grow.
BackoffDelayFlat(base, att) == base

BackoffDelay(base, att) == base * Pow2(att)

\* Faulty variant, for comparison: the attempt is awaited and its value dropped.
ReturnAwaitDropped(v) == "undefined"

\* `return await fn(...args)`: the wrapper returns what the attempt produced.
ReturnAwait(v) == v

\* Faulty variant, for comparison: the loop variable is shared by the
\* invocations, a new one goes on from the furthest attempt index.
FirstAttemptShared(att) ==
    CHOOSE m \in {att[d] : d \in Calls} : \A d \in Calls : att[d] <= m

\* Line 12, `let attempt = 0`: the loop variable belongs to the invocation and
\* starts at 0 whatever the loop variables `att` of the invocations are.
FirstAttempt(att) == 0

\* --------------------------------------------------------- cacheRequest
\* Faulty variant, for comparison: the age alone decides, `cache &&` is left out.
FreshIgnoringValue(c, ts, n, t) == n - ts < t

\* Line 33: whether the slot (c, ts) is served at time n under the ttl t.
Fresh(c, ts, n, t) == Truthy(c) /\ n - ts < t

\* Faulty variant, for comparison: the entry is stamped with the time of completion.
StoredAtCompletion(n, clk) == clk

\* Line 39: the stamp of a new entry, from the invocation's `now` and the
\* clock at the time of the store.
StoredAt(n, clk) == n

\* Faulty variant, for comparison: the invocation is suspended between the
\* two writes, the step writes the value and leaves the stamp ts.
SlotAfterValueOnly(c, ts, v, n) == <<v, ts>>

\* Lines 38-39, two assignments with no await between them: the slot (c, ts)
\* becomes the value v and the stamp n in one step.
SlotAfterStore(c, ts, v, n) == <<v, n>>

\* Faulty variant, for comparison: a hit stamps the entry anew.
HitStampTouched(ts, n) == n

\* Lines 33-36: the branch that serves the entry assigns nothing, the stamp
\* ts stays whatever the time n of the hit.
HitStamp(ts, n) == ts

\* Faulty variant, for comparison: the outcome is stored whether fn returned or threw.
StoresAlways(st) == TRUE

\* Lines 38-39 run only when the await of line 37 did not throw.
Stores(st) == st = "fulfilled"


\* ---------------------------------------------------------------- states
Idle(c) ==
    /\ pc[c] = "idle" /\ args[c] = <<>> /\ now[c] = 0
    /\ attempt[c] = 0 /\ err[c] = <<>> /\ wakeAt[c] = 0
    /\ settled[c] = Pending /\ result[c] = Pending /\ got[c] = Pending
    /\ fnCalls[c] = 0 /\ fetchCalls[c] = 0 /\ inFlight[c] = 0
    /\ delays[c] = <<>> /\ storedSince[c] = FALSE

InitState ==
    /\ cache = "null"
    /\ timestamp = 0
    /\ clock = 0
    /\ started = 0
    /\ mainWake = 0
    /\ pc = [c \in Calls |-> "idle"]
    /\ args = [c \in Calls |-> <<>>]
    /\ now = [c \in Calls |-> 0]
    /\ attempt = [c \in Calls |-> 0]
    /\ err = [c \in Calls |-> <<>>]
    /\ wakeAt = [c \in Calls |-> 0]
    /\ settled = [c \in Calls |-> Pending]
    /\ result = [c \in Calls |-> Pending]
    /\ got = [c \in Calls |-> Pending]
    /\ fnCalls = [c \in Calls |-> 0]
    /\ fetchCalls = [c \in Calls |-> 0]
    /\ inFlight = [c \in Calls |-> 0]
    /\ delays = [c \in Calls |-> <<>>]
    /\ storedSince = [c \in Calls |-> FALSE]
    /\ served = FALSE
    /\ lastStore = [value |-> "null", stamp |-> 0]
    /\ lastFail = "none"

\* The decorators are given any parameters within the bounds.
Init ==
    /\ maxRetries \in (0 - BelowZero)..OverlapAttempts
    /\ baseDelay \in {0, MaxBaseDelay}
    /\ ttl \in {0, MaxTtl}
    /\ InitState

\* The parameters within the bounds, and the defaults of lines 10 and 27.
InitRetry ==
    /\ \/ /\ maxRetries \in 0..MaxAttempts
          /\ baseDelay \in {0, MaxBaseDelay}
          /\ ttl \in {0, MaxTtl}
       \/ /\ maxRetries = DefaultMaxRetries
          /\ baseDelay = DefaultBaseDelay
          /\ ttl = DefaultTtl
    /\ InitState

\* ------------------------------------------------------------- actions
\* The clock is observed in steps of the base delay.
TickStep == IF baseDelay = 0 THEN 1 ELSE baseDelay
ClockEnd == MaxSteps * TickStep
OverlapEnd == OverlapSteps * TickStep

\* Promise reactions are queued: the event loop runs them before it runs
\* another timer or I/O callback.
MicrotasksPending == \E c \in Calls : pc[c] \in {"awaitFn", "done"}

\* The retry wrapper's loop head at attempt index `att` (line 12), up to the
\* await of line 14: either fetchData is called, or the loop is over and the
\* async function returns undefined.
LoopHead(c, att) ==
    /\ attempt' = [attempt EXCEPT ![c] = att]
    /\ IF LoopContinues(att, maxRetries)
       THEN /\ fetchCalls' = [fetchCalls EXCEPT ![c] = @ + 1]
            /\ inFlight' = [inFlight EXCEPT ![c] = @ + 1]
            /\ pc' = [pc EXCEPT ![c] = "fetching"]
            /\ UNCHANGED settled
       ELSE /\ settled' = [settled EXCEPT ![c] = Fulfilled("undefined")]
            /\ pc' = [pc EXCEPT ![c] = "awaitFn"]
            /\ UNCHANGED <<fetchCalls, inFlight>>

\* The body of enhanced(...a), lines 31-37, and on a miss the retry wrapper
\* up to its first await.
Enter(c, a) ==
    /\ pc[c] = "idle"
    /\ \A d \in Calls : d < c => pc[d] # "idle"
    /\ args' = [args EXCEPT ![c] = a]
    /\ now' = [now EXCEPT ![c] = clock]
    /\ lastFail' = "none"
    /\ IF Fresh(cache, timestamp, clock, ttl)
       THEN /\ result' = [result EXCEPT ![c] = Fulfilled(cache)]
            /\ pc' = [pc EXCEPT ![c] = "done"]
            /\ timestamp' = HitStamp(timestamp, clock)
            /\ served' = TRUE
            /\ UNCHANGED <<attempt, settled, fnCalls, fetchCalls, inFlight>>
       ELSE /\ fnCalls' = [fnCalls EXCEPT ![c] = @ + 1]
            /\ LoopHead(c, FirstAttempt(attempt))
            /\ UNCHANGED <<result, timestamp, served>>
    /\ UNCHANGED <<config, cache, clock, err, wakeAt, got, delays, storedSince,
                   lastStore>>

\* Some caller invokes enhanced(...a).
Invoke(c, a) ==
    /\ Enter(c, a)
    /\ UNCHANGED main

\* The fetchData call of invocation c settles: lines 14-20.  A backoff timer
\* is set only if it comes due by the time `end`.
Settle(c, res, end) ==
    /\ pc[c] = "fetching"
    /\ ~MicrotasksPending
    /\ inFlight' = [inFlight EXCEPT ![c] = @ - 1]
    /\ got' = [got EXCEPT ![c] = fetchData(res)]
    /\ LET out == fetchData(res) IN
       IF out.state = "fulfilled"
       THEN /\ settled' = [settled EXCEPT ![c] = Fulfilled(ReturnAwait(out.value))]
            /\ pc' = [pc EXCEPT ![c] = "awaitFn"]
            /\ UNCHANGED <<err, wakeAt, delays>>
       ELSE /\ err' = [err EXCEPT ![c] = out.message]
            /\ IF IsLastAttempt(attempt[c], maxRetries)
               THEN /\ settled' = [settled EXCEPT ![c] =
                           Rejected(ExhaustedMessage(maxRetries, out.message))]
                    /\ pc' = [pc EXCEPT ![c] = "awaitFn"]
                    /\ UNCHANGED <<wakeAt, delays>>
               ELSE /\ clock + BackoffDelay(baseDelay, attempt[c]) <= end
                    /\ delays' = [delays EXCEPT ![c] =
                           Append(@, BackoffDelay(baseDelay, attempt[c]))]
                    /\ wakeAt' = [wakeAt EXCEPT ![c] =
                           clock + BackoffDelay(baseDelay, attempt[c])]
                    /\ pc' = [pc EXCEPT ![c] = "backoff"]
                    /\ UNCHANGED settled
    /\ UNCHANGED <<config, slot, clock, main, args, now, attempt, result,
                   fnCalls, fetchCalls, storedSince, served, lastStore, lastFail>>

\* The backoff timer of invocation c fires: line 20 resumes, then attempt++
\* and the loop head of line 12.
TimerFire(c) ==
    /\ pc[c] = "backoff"
    /\ ~MicrotasksPending
    /\ clock >= wakeAt[c]
    /\ LoopHead(c, attempt[c] + 1)
    /\ UNCHANGED <<config, slot, clock, main, args, now, err, wakeAt, result,
                   got, fnCalls, delays, storedSince, served, lastStore, lastFail>>

\* The cache wrapper resumes after `await fn(...args)`: lines 37-40.
Resume(c) ==
    /\ pc[c] = "awaitFn"
    /\ IF Stores(settled[c].state)
       THEN /\ LET after == SlotAfterStore(cache, timestamp, settled[c].value,
                                           StoredAt(now[c], clock))
               IN  cache' = after[1] /\ timestamp' = after[2]
            /\ lastStore' = [value |-> settled[c].value,
                             stamp |-> StoredAt(now[c], clock)]
            /\ storedSince' = [d \in Calls |->
                   storedSince[d] \/ (d # c /\ pc[d] \notin {"idle", "done"})]
            /\ served' = FALSE
            /\ lastFail' = IF lastFail = "clean" THEN "dirty" ELSE lastFail
       ELSE /\ UNCHANGED <<slot, storedSince, served, lastStore>>
            /\ lastFail' = IF storedSince[c] THEN "dirty" ELSE "clean"
    /\ result' = [result EXCEPT ![c] = settled[c]]
    /\ pc' = [pc EXCEPT ![c] = "done"]
    /\ UNCHANGED <<config, clock, main, args, now, attempt, err, wakeAt,
                   settled, got, fnCalls, fetchCalls, inFlight, delays>>

\* The caller has taken the invocation's outcome; its frame is gone.
Drop(c) ==
    /\ pc[c] = "done"
    /\ pc' = [pc EXCEPT ![c] = "idle"]
    /\ args' = [args EXCEPT ![c] = <<>>]
    /\ now' = [now EXCEPT ![c] = 0]
    /\ attempt' = [attempt EXCEPT ![c] = 0]
    /\ err' = [err EXCEPT ![c] = <<>>]
    /\ wakeAt' = [wakeAt EXCEPT ![c] = 0]
    /\ settled' = [settled EXCEPT ![c] = Pending]
    /\ result' = [result EXCEPT ![c] = Pending]
    /\ got' = [got EXCEPT ![c] = Pending]
    /\ fnCalls' = [fnCalls EXCEPT ![c] = 0]
    /\ fetchCalls' = [fetchCalls EXCEPT ![c] = 0]
    /\ inFlight' = [inFlight EXCEPT ![c] = 0]
    /\ delays' = [delays EXCEPT ![c] = <<>>]
    /\ storedSince' = [storedSince EXCEPT ![c] = FALSE]

Return(c) ==
    /\ Drop(c)
    /\ UNCHANGED <<config, slot, clock, main, served, lastStore, lastFail>>

\* Time passes, up to the time `end`; promise reactions take no time.
Tick(end) ==
    /\ ~MicrotasksPending
    /\ clock + TickStep <= end
    /\ clock' = clock + TickStep
    /\ UNCHANGED <<config, slot, main, frame, storedSince, served, lastStore, lastFail>>

Next ==
    \/ \E c \in Calls, a \in ArgLists : Invoke(c, a)
    \/ \E c \in Calls, res \in Responses : Settle(c, res, OverlapEnd)
    \/ \E c \in Calls : TimerFire(c)
    \/ \E c \in Calls : Resume(c)
    \/ \E c \in Calls : Return(c)
    \/ Tick(OverlapEnd)

Spec == Init /\ [][Next]_vars

\* A caller invokes enhanced(...a) once.
InvokeOnce(c, a) ==
    /\ started = 0
    /\ Enter(c, a)
    /\ started' = 1
    /\ UNCHANGED mainWake

NextRetry ==
    \/ \E c \in Calls, a \in ArgLists : InvokeOnce(c, a)
    \/ \E c \in Calls, res \in Responses : Settle(c, res, ClockEnd)
    \/ \E c \in Calls : TimerFire(c)
    \/ \E c \in Calls : Resume(c)
    \/ \E c \in Calls : Return(c)
    \/ Tick(ClockEnd)

RetrySpec == InitRetry /\ [][NextRetry]_vars

\* Every fetchData call settles, every timer fires, every promise reaction
\* runs, and time passes.
FairRetrySpec ==
    /\ RetrySpec
    /\ \A c \in Calls :
          /\ WF_vars(\E res \in Responses : Settle(c, res, ClockEnd))
          /\ WF_vars(TimerFire(c))
          /\ WF_vars(Resume(c))
          /\ WF_vars(Return(c))
    /\ WF_vars(Tick(ClockEnd))

\* ----------------------------------------------------------------- main
\* main's clock is observed by the second: line 58, "Waiting 6 seconds".
MainStep == MainWait \div 6

InitMain ==
    /\ maxRetries = DefaultMaxRetries
    /\ baseDelay = DefaultBaseDelay
    /\ ttl = DefaultTtl
    /\ InitState

\* main calls enhanced(): lines 51, 55 and, once the timer of line 59 has
\* fired, 62.
MainInvoke(c) ==
    /\ started < 3
    /\ \A d \in Calls : pc[d] = "idle"
    /\ started = 2 => clock >= mainWake
    /\ Enter(c, <<>>)
    /\ started' = started + 1
    /\ UNCHANGED mainWake

\* main resumes with the data and reads data[0]: lines 51-52, 55-56 and
\* 62-63; after the second call it sets the timer of line 59.
MainReturn(c) ==
    /\ pc[c] = "done"
    /\ result[c].state = "fulfilled"
    /\ result[c].value \notin {"null", "undefined"}
    /\ Drop(c)
    /\ mainWake' = IF started = 2 THEN clock + MainWait ELSE mainWake
    /\ UNCHANGED <<config, slot, clock, started, served, lastStore, lastFail>>

\* The API answers, always ok and always with the same body.
SettleMain(c, res) ==
    /\ cache # "null" => res.body = cache
    /\ Settle(c, res, clock)

TickMain ==
    /\ ~MicrotasksPending
    /\ clock < MainWait \/ clock < mainWake
    /\ clock' = clock + MainStep
    /\ UNCHANGED <<config, slot, main, frame, storedSince, served, lastStore, lastFail>>

NextMain ==
    \/ \E c \in Calls : MainInvoke(c)
    \/ \E c \in Calls, res \in OkResponses : SettleMain(c, res)
    \/ \E c \in Calls : Resume(c)
    \/ \E c \in Calls : MainReturn(c)
    \/ TickMain

SpecMain == InitMain /\ [][NextMain]_vars

\* ------------------------------------------------------------- claims
Contains(m, sub) ==
    \E i \in 0..(Len(m) - Len(sub)) : SubSeq(m, i + 1, i + Len(sub)) = sub

\* The retry wrapper's invocation c is over.
RetryOver(c) == pc[c] \in {"awaitFn", "done"} /\ fnCalls[c] = 1

\* C1: with maxRetries = n >= 1, an invocation of the retry wrapper whose
\* every attempt failed has called fetchData exactly n times, has been
\* suspended n - 1 times, and is rejected with a message that holds n and the
\* message of the last failure; it is over without a rejection only when an
\* attempt succeeded, and fetchData is never called more than n times.
C1_ExhaustedAfterN ==
    \A c \in Calls :
        maxRetries >= 1 =>
            /\ fetchCalls[c] <= maxRetries
            /\ RetryOver(c) /\ settled[c].state = "rejected" =>
                   /\ fetchCalls[c] = maxRetries
                   /\ Len(delays[c]) = maxRetries - 1
                   /\ got[c].state = "rejected"
                   /\ err[c] = got[c].message
                   /\ Contains(settled[c].message, ToStr(maxRetries))
                   /\ Contains(settled[c].message, got[c].message)
                   /\ settled[c].message =
                          <<"Failed after ">> \o ToStr(maxRetries)
                              \o <<" attempts: ">> \o got[c].message
            /\ RetryOver(c) /\ settled[c].state = "fulfilled" =>
                   got[c].state = "fulfilled"

C1_Witness ==
    \E c \in Calls :
        /\ maxRetries = 3 /\ args[c] = <<"a">>
        /\ pc[c] = "awaitFn" /\ settled[c].state = "rejected"
        /\ fetchCalls[c] = 3
        /\ Contains(settled[c].message, <<"4", "0", "4">>)

\* C2: an invocation of the retry wrapper whose attempts 1..k-1 failed and
\* whose attempt k succeeded has called fetchData exactly k times and is
\* fulfilled with the value of attempt k; once it is over it calls fetchData
\* no more and sets no timer.
C2_SucceedsOnK ==
    /\ [](\A c \in Calls :
            RetryOver(c) /\ got[c].state = "fulfilled" =>
                /\ fetchCalls[c] = Len(delays[c]) + 1
                /\ fetchCalls[c] <= maxRetries
                /\ settled[c] = Fulfilled(got[c].value)
                /\ inFlight[c] = 0)
    /\ [][\A c \in Calls :
            RetryOver(c) /\ pc'[c] # "idle" =>
                /\ fetchCalls'[c] = fetchCalls[c]
                /\ delays'[c] = delays[c]
                /\ inFlight'[c] = 0
                /\ pc'[c] \in {pc[c], "done"}]_vars

C2_Witness ==
    \E c \in Calls :
        /\ pc[c] = "awaitFn" /\ settled[c] = Fulfilled("[2]")
        /\ fetchCalls[c] = 3 /\ Len(delays[c]) = 2 /\ maxRetries = 4

\* C3: the i-th suspension of an invocation (i from 0) is for
\* baseDelay * 2^i, its timer is set for that long after the failure and the
\* next attempt does not start before it is due; there are at most
\* maxRetries - 1 suspensions, none after the last attempt; with the
\* defaults 3 and 300 the delays are 300 and then 600.
C3_BackoffDoubles ==
    /\ [](\A c \in Calls :
            /\ \A i \in 0..(Len(delays[c]) - 1) :
                   delays[c][i + 1] = baseDelay * 2^i
            /\ maxRetries >= 1 => Len(delays[c]) <= maxRetries - 1
            /\ pc[c] = "backoff" => Len(delays[c]) = attempt[c] + 1
            /\ (maxRetries = 3 /\ baseDelay = 300 /\ Len(delays[c]) = 2) =>
                   delays[c] = <<300, 600>>)
    /\ [][\A c \in Calls :
            /\ pc[c] = "fetching" /\ pc'[c] = "backoff" =>
                   /\ wakeAt'[c] = clock + baseDelay * 2^(attempt[c])
                   /\ delays'[c] = Append(delays[c], baseDelay * 2^(attempt[c]))
            /\ pc[c] = "backoff" /\ pc'[c] # "backoff" =>
                   /\ clock >= wakeAt[c]
                   /\ attempt'[c] = attempt[c] + 1
            /\ pc[c] = "fetching" /\ pc'[c] = "awaitFn" =>
                   delays'[c] = delays[c]]_vars

C3_Witness ==
    \E c \in Calls :
        /\ maxRetries = 3 /\ baseDelay = 300
        /\ pc[c] = "fetching" /\ attempt[c] = 2
        /\ delays[c] = <<300, 600>> /\ clock = 900

C3_WitnessThird ==
    \E c \in Calls : baseDelay = 1 /\ delays[c] = <<1, 2, 4>>

\* C9: with maxRetries >= 1 the attempt index of an invocation goes from 0 up
\* by ones to at most maxRetries - 1, at most one fetchData call of the
\* invocation is in flight, fetchData is called at most maxRetries times, and
\* (every fetchData call settling, every timer firing) the retry wrapper's
\* invocation ends: fulfilled by an attempt, or rejected after the last one.
C9_BoundedSequentialRetry ==
    /\ [](\A c \in Calls :
            maxRetries >= 1 =>
                /\ attempt[c] \in 0..(maxRetries - 1)
                /\ fetchCalls[c] <= maxRetries
                /\ inFlight[c] \in {0, 1}
                /\ inFlight[c] = 1 <=> pc[c] = "fetching"
                /\ pc[c] \in {"fetching", "backoff"} =>
                       fetchCalls[c] = attempt[c] + 1)
    /\ [][\A c \in Calls :
            pc'[c] # "idle" =>
                /\ attempt'[c] \in {attempt[c], attempt[c] + 1}
                /\ fetchCalls'[c] \in {fetchCalls[c], fetchCalls[c] + 1}]_vars
    /\ \A c \in Calls :
          (maxRetries >= 1 /\ pc[c] \in {"fetching", "backoff"})
              ~> /\ RetryOver(c)
                 /\ \/ settled[c].state = "fulfilled" /\ got[c].state = "fulfilled"
                    \/ /\ settled[c].state = "rejected"
                       /\ attempt[c] = maxRetries - 1

C9_Witness ==
    \E c \in Calls :
        /\ maxRetries = 4 /\ pc[c] = "awaitFn" /\ attempt[c] = 3
        /\ fetchCalls[c] = 4 /\ settled[c].state = "rejected"

\* Invocation c starts in this step.
Starts(c) == pc[c] = "idle" /\ pc'[c] # "idle"

\* Invocation c, started in this step, is served from the slot `was`.
ServedFrom(c, was) ==
    /\ pc'[c] = "done"
    /\ result'[c] = Fulfilled(was)
    /\ fnCalls'[c] = 0
    /\ fetchCalls'[c] = 0

\* The cache wrapper's invocation c resumes in this step.
Resumes(c) == pc[c] = "awaitFn" /\ pc'[c] = "done"

\* C4 (as claimed, for a value JavaScript takes as true): with ttl > 0, an
\* invocation made at the very time a refresh has completed successfully is
\* served the value that refresh returned, and fn is not called, however long
\* the refresh took.
C4_ServedRightAfterRefresh ==
    [][\A c, d \in Calls :
          (/\ pc[c] = "done" /\ fnCalls[c] = 1 /\ result[c].state = "fulfilled"
           /\ Truthy(result[c].value)
           /\ ttl > 0
           /\ Starts(d))
              => ServedFrom(d, result[c].value)]_vars

\* C5 (as claimed): once an entry has been stored (the slot is null only
\* before the first store), an invocation starting at a time n with
\* n - timestamp < ttl is served the stored value and fn is not called,
\* whatever the value.
C5_FreshnessAlone ==
    [][\A c \in Calls :
          (Starts(c) /\ cache # "null" /\ clock - timestamp < ttl)
              => ServedFrom(c, cache)]_vars

\* C6: an invocation starting at a time n with n - timestamp >= ttl calls fn,
\* and no invocation calls fn twice; when fn returns r the invocation stores
\* r with the stamp n, the time read at its start, and returns r.
C6_RefreshStoresAtStart ==
    /\ [](\A c \in Calls : fnCalls[c] <= 1)
    /\ [][\A c \in Calls :
            /\ (Starts(c) /\ clock - timestamp >= ttl) =>
                   /\ fnCalls'[c] = 1
                   /\ now'[c] = clock
                   /\ pc'[c] # "done"
            /\ (Resumes(c) /\ settled[c].state = "fulfilled") =>
                   /\ fnCalls'[c] = 1
                   /\ cache' = settled[c].value
                   /\ timestamp' = now[c]
                   /\ result'[c] = Fulfilled(settled[c].value)]_vars

\* A stale entry is about to be overwritten by a refresh that has succeeded.
C6_Witness ==
    \E c \in Calls :
        /\ pc[c] = "awaitFn" /\ settled[c].state = "fulfilled"
        /\ ttl > 0 /\ cache # "null" /\ ~storedSince[c]
        /\ now[c] - timestamp >= ttl

C10_NoDeduplication ==
    /\ [](\A c \in Calls :
            pc[c] \in {"fetching", "backoff", "awaitFn"} => fnCalls[c] = 1)
    /\ [][\A c \in Calls :
            (Starts(c) /\ (cache = "null" \/ clock - timestamp >= ttl)) =>
                /\ fnCalls'[c] = 1
                /\ pc'[c] # "done"
                /\ maxRetries >= 1 => fetchCalls'[c] = 1 /\ inFlight'[c] = 1]_vars

\* Two misses overlap: both have called fn and both fetch.
C10_Witness ==
    /\ \A c \in Calls : c <= 2 => pc[c] = "fetching" /\ fnCalls[c] = 1
    /\ ttl > 0

\* C8 (as claimed): an invocation served from the slot calls fetchData zero
\* times and is never suspended; in main, with the API always answering V,
\* the call at 0 fetches once, the call one second later does not fetch, the
\* call after the wait of six seconds fetches once, and each returns V.
C8_MainScenario ==
    \A c \in Calls :
        pc[c] = "done" =>
            /\ fnCalls[c] = 0 => fetchCalls[c] = 0 /\ delays[c] = <<>>
            /\ result[c] = Fulfilled(cache)
            /\ (started = 1 /\ now[c] = 0) => fetchCalls[c] = 1
            /\ (started = 2 /\ now[c] = MainStep) => fetchCalls[c] = 0
            /\ (started = 3 /\ now[c] >= MainWait) => fetchCalls[c] = 1

\* C8 for a V that JavaScript takes as true.
C8_MainScenarioTruthy ==
    \A c \in Calls :
        (pc[c] = "done" /\ Truthy(cache)) =>
            /\ fnCalls[c] = 0 => fetchCalls[c] = 0 /\ delays[c] = <<>>
            /\ result[c] = Fulfilled(cache)
            /\ (started = 1 /\ now[c] = 0) => fetchCalls[c] = 1
            /\ (started = 2 /\ now[c] = MainStep) => fetchCalls[c] = 0
            /\ (started = 3 /\ now[c] >= MainWait) => fetchCalls[c] = 1

\* C11 (as claimed, for maxRetries >= 1): no other invocation writes the slot
\* between an invocation's read of line 33 and its own writes of lines
\* 38-39: an invocation about to store has seen no store by another
\* invocation since it started.
C11_NoInterleavedWrite ==
    \A c \in Calls :
        (/\ maxRetries >= 1
         /\ pc[c] = "awaitFn" /\ fnCalls[c] = 1 /\ Stores(settled[c].state))
            => ~storedSince[c]

\* The retry state of invocation c: loop variable, calls made, delays set.
RetryState(c) == <<attempt[c], fetchCalls[c], delays[c]>>

\* C12: an invocation of the retry wrapper starts at attempt index 0 with no
\* call counted and no delay set, whatever the other invocations have done;
\* a step of one invocation leaves the retry state of the others alone; each
\* invocation has the full budget (it is rejected only after maxRetries
\* calls of its own) and its first delay is baseDelay.
C12_RetryStatePerInvocation ==
    /\ [](\A c \in Calls :
            maxRetries >= 1 =>
                /\ pc[c] \in {"fetching", "backoff"} =>
                       fetchCalls[c] = attempt[c] + 1
                /\ pc[c] = "fetching" => Len(delays[c]) = attempt[c]
                /\ delays[c] # <<>> => delays[c][1] = baseDelay
                /\ (RetryOver(c) /\ settled[c].state = "rejected") =>
                       fetchCalls[c] = maxRetries)
    /\ [][\A c \in Calls :
            /\ (Starts(c) /\ fnCalls'[c] = 1) =>
                   /\ attempt'[c] = 0
                   /\ delays'[c] = <<>>
                   /\ fetchCalls'[c] = IF maxRetries >= 1 THEN 1 ELSE 0
            /\ (RetryState(c)' # RetryState(c)) =>
                   \A d \in Calls : d # c => RetryState(d)' = RetryState(d)]_vars

\* A second invocation is at its first attempt while the first invocation,
\* after a failure and a delay, is at its second.
C12_Witness ==
    /\ maxRetries = 2
    /\ pc[1] = "fetching" /\ attempt[1] = 1 /\ delays[1] = <<baseDelay>>
    /\ pc[2] = "fetching" /\ attempt[2] = 0 /\ fetchCalls[2] = 1
    /\ delays[2] = <<>>

\* C13: an invocation served from the slot leaves the value and the stamp as
\* they are; the slot changes only in the step in which an invocation that
\* called fn resumes with what fn returned; so an entry stamped s is served to
\* no invocation starting at s + ttl or later, whether or not it has been
\* served before.
C13_HitsLeaveSlot ==
    [][/\ \A c \in Calls :
             /\ (Starts(c) /\ fnCalls'[c] = 0) =>
                    /\ ServedFrom(c, cache)
                    /\ cache' = cache /\ timestamp' = timestamp
             /\ (Starts(c) /\ clock >= timestamp + ttl) =>
                    /\ fnCalls'[c] = 1
                    /\ pc'[c] # "done"
       /\ slot' # slot =>
             \E c \in Calls :
                 /\ Resumes(c) /\ fnCalls[c] = 1
                 /\ settled[c].state = "fulfilled"
                 /\ slot' = <<settled[c].value, now[c]>>]_vars

\* An entry that has been served is found stale, with the stamp it was stored
\* with, by an invocation starting ttl or more after it.
C13_Witness ==
    \E c \in Calls :
        /\ served /\ Truthy(cache) /\ ttl > 0
        /\ pc[c] = "fetching" /\ ~storedSince[c]
        /\ now[c] >= timestamp + ttl

\* C14: an invocation that starts while the slot is as constructed (null, 0)
\* calls fn, whatever ttl and whatever the time; with ttl = 0 every
\* invocation calls fn and none is served from the slot.
C14_FirstCallAndZeroTtlMiss ==
    /\ [](ttl = 0 => ~served)
    /\ [][\A c \in Calls :
            (Starts(c) /\ (ttl = 0 \/ (cache = "null" /\ timestamp = 0))) =>
                /\ fnCalls'[c] = 1
                /\ pc'[c] # "done"
                /\ result'[c] = Pending]_vars

\* With ttl = 0, an invocation calls fn although it starts at the very time
\* the entry in the slot is stamped with.
C14_Witness ==
    \E c \in Calls :
        /\ ttl = 0 /\ Truthy(cache) /\ ~storedSince[c]
        /\ pc[c] = "fetching" /\ fnCalls[c] = 1 /\ now[c] = timestamp

\* The first invocation calls fn although the time since the initial stamp 0
\* is less than ttl.
C14_WitnessFirst ==
    \E c \in Calls :
        /\ cache = "null" /\ timestamp = 0 /\ ttl > 0
        /\ pc[c] = "fetching" /\ fnCalls[c] = 1
        /\ now[c] > 0 /\ now[c] - timestamp < ttl

\* Invocation c has stored what fn returned for its arguments, and that entry
\* is the one in the slot.
HasStored(c) ==
    /\ pc[c] = "done" /\ fnCalls[c] = 1 /\ result[c].state = "fulfilled"
    /\ cache = result[c].value /\ timestamp = now[c]

\* C15 (as claimed, for maxRetries >= 1): after an invocation with the
\* argument list A has stored v, an invocation with another argument list B
\* that starts less than ttl after the entry's stamp is served v, and fn is
\* not called with B.
C15_OtherArgsServed ==
    [][\A c, d \in Calls :
          (/\ maxRetries >= 1
           /\ HasStored(c)
           /\ Starts(d) /\ args'[d] # args[c]
           /\ clock - timestamp < ttl)
              => ServedFrom(d, result[c].value)]_vars

\* C15 for a v that JavaScript takes as true.
C15_OtherArgsServedTruthy ==
    [][\A c, d \in Calls :
          (/\ HasStored(c) /\ Truthy(result[c].value)
           /\ Starts(d) /\ args'[d] # args[c]
           /\ clock - timestamp < ttl)
              => ServedFrom(d, result[c].value)]_vars

\* An invocation with the arguments ("a") has been served what an invocation
\* without arguments stored.
C15_ServedOtherArgs ==
    \E c, d \in Calls :
        /\ HasStored(c) /\ args[c] = <<>>
        /\ pc[d] = "done" /\ fnCalls[d] = 0 /\ args[d] = <<"a">>
        /\ result[d] = Fulfilled(cache)

\* C16 (as claimed): the stamp in the slot never decreases, in whatever order
\* overlapping invocations complete.
C16_TimestampMonotone ==
    [][timestamp' >= timestamp]_vars

\* C17: whenever an invocation may read the slot, the value and the stamp in
\* it are those written by one and the same invocation, the latest to store,
\* or are both still null and 0; a step writes both or neither.
C17_ValueAndStampTogether ==
    /\ [](/\ cache = lastStore.value
          /\ timestamp = lastStore.stamp)
    /\ [][\A c \in Calls :
            (Resumes(c) /\ settled[c].state = "fulfilled") =>
                /\ cache' = settled[c].value
                /\ timestamp' = lastStore'.stamp
                /\ lastStore'.value = settled[c].value]_vars

\* Two invocations overlapped and both stored: the slot holds the value and
\* the stamp of the later one to store.
C17_Witness ==
    \E c \in Calls :
        /\ HasStored(c) /\ storedSince[c]
        /\ Truthy(cache) /\ timestamp > 0

\* C18: with maxRetries <= 0 an invocation of the retry wrapper never calls
\* fetchData and sets no timer, and is fulfilled with undefined, not rejected;
\* the cache wrapper stores undefined with the stamp of the invocation's
\* start, and no later invocation is served from the slot: each calls fn.
C18_NoAttemptsGivesUndefined ==
    /\ [](maxRetries <= 0 =>
            /\ ~served
            /\ cache \in {"null", "undefined"}
            /\ \A c \in Calls :
                  /\ fetchCalls[c] = 0 /\ inFlight[c] = 0 /\ delays[c] = <<>>
                  /\ pc[c] \in {"idle", "awaitFn", "done"}
                  /\ pc[c] = "awaitFn" => settled[c] = Fulfilled("undefined")
                  /\ pc[c] = "done" => result[c] = Fulfilled("undefined"))
    /\ [][maxRetries <= 0 =>
            \A c \in Calls :
                /\ Starts(c) => fnCalls'[c] = 1 /\ pc'[c] = "awaitFn"
                /\ Resumes(c) =>
                       /\ cache' = "undefined"
                       /\ timestamp' = now[c]]_vars

\* With a negative maxRetries, undefined has been stored and an invocation
\* that started less than ttl after its stamp has called fn all the same.
C18_Witness ==
    \E c \in Calls :
        /\ maxRetries < 0 /\ ttl > 0
        /\ cache = "undefined" /\ ~storedSince[c]
        /\ pc[c] = "awaitFn" /\ fnCalls[c] = 1
        /\ now[c] > 0 /\ now[c] - timestamp < ttl
====
